---- MODULE Spec2Model ----
(***************************************************************************)
(* Model of backend/utils.py of the recipe chatbot: the module constants   *)
(* SYSTEM_PROMPT and MODEL_NAME and the function get_agent_response.       *)
(*                                                                         *)
(* Python lists are objects with identity: `heap` holds every list, and a  *)
(* variable that names a list holds a reference into `heap`, so            *)
(* that aliasing (current_messages = messages) and copying ([..] + xs) are *)
(* different things in the model as they are in the program.  Text is a    *)
(* sequence of characters, so that str.strip() is computed.  Each caller   *)
(* p runs one invocation of get_agent_response at a time; pc[p] is the     *)
(* statement it is about to execute.                                       *)
(***************************************************************************)
EXTENDS Integers, Sequences, FiniteSets, TLC

VARIABLES
    SYSTEM_PROMPT,            \* module constant, set at import (lines 20-35)
    MODEL_NAME,               \* module constant, set at import (line 38)
    heap,                     \* the list objects: reference -> contents
    pc,                       \* per caller: position in get_agent_response
    messages,                 \* per caller: the parameter (a reference)
    current_messages,         \* per caller: the local (a reference, NoRef = unbound)
    completion,               \* per caller: the local (a response, or Unbound)
    assistant_reply_content,  \* per caller: the local (text)
    updated_messages,         \* per caller: the returned list (a reference, NoRef = none)
    exception,                \* per caller: the exception the call ended with ("" = none)
    requests,                 \* per caller: the calls litellm.completion received
    input,                    \* per caller: contents of `messages` when the call began
    history,                  \* per caller: the completed calls of its conversation
    interleaved               \* some caller ran a statement in the middle of another's call

vars == <<SYSTEM_PROMPT, MODEL_NAME, heap, pc, messages, current_messages,
          completion, assistant_reply_content, updated_messages, exception,
          requests, input, history, interleaved>>

config == <<SYSTEM_PROMPT, MODEL_NAME>>

----------------------------------------------------------------------------
(* Bounds.                                                                 *)

MaxLen == 2        \* longest input conversation a caller constructs
MaxText == 3       \* longest text of a remote reply
MaxChoices == 2    \* most choices in a remote response
MaxTurns == 3      \* most chained calls of one conversation
MaxAppend == 1     \* most user messages a caller appends between two calls
NumCallers == 2    \* concurrent callers

SeqsUpTo(S, n) == UNION {[1..k -> S] : k \in 0..n}

----------------------------------------------------------------------------
(* Values.                                                                 *)

\* The instruction text of lines 20-35, abbreviated; like the original it
\* ends with a blank.
PromptText == <<"Y", "o", "u", ".", " ">>

DefaultModel == "gpt-4o-mini"
ModelNames == {DefaultModel, "env-model"}

Roles == {"system", "user", "assistant"}

\* Characters str.strip() removes (the ASCII ones that occur in replies), and
\* the characters replies are made of.
Whitespace == {" ", "\t", "\n", "\r"}
Chars == {" ", "\n", "a"}

UserText == <<"h", "i">>
CustomText == <<"B", "e">>

Msg(r, c) == [role |-> r, content |-> c]

\* The messages a caller builds a conversation from.
InputMessages ==
    {Msg(r, UserText) : r \in Roles} \cup {Msg("system", PromptText), Msg("system", CustomText)}

Inputs == SeqsUpTo(InputMessages, MaxLen)

Unbound == [unbound |-> TRUE]

Str(t) == [type |-> "str", value |-> t]
NonText == {[type |-> "NoneType", value |-> <<>>],
            [type |-> "int", value |-> <<>>],
            [type |-> "list", value |-> <<>>]}
Texts == SeqsUpTo(Chars, MaxText)
Contents == {Str(t) : t \in Texts} \cup NonText

Choice(c) == [message |-> [role |-> "assistant", content |-> c]]
NoMessageChoice == [finish_reason |-> "error"]
NoContentChoice == [message |-> [role |-> "assistant"]]
NoChoicesResponse == [object |-> "error"]
FirstChoices == {Choice(c) : c \in Contents} \cup {NoMessageChoice, NoContentChoice}
OtherChoices == {Choice(Str(<<"b">>)), Choice([type |-> "NoneType", value |-> <<>>])}
Tails == UNION {[1..k -> {oc}] : k \in 0..(MaxChoices - 1), oc \in OtherChoices}

Responses ==
    {NoChoicesResponse, [choices |-> <<>>]}
        \cup {[choices |-> <<f>> \o t] : f \in FirstChoices, t \in Tails}

RemoteErrors == {"APIConnectionError", "AuthenticationError", "RateLimitError"}

----------------------------------------------------------------------------
(* The expressions of get_agent_response.                                  *)

\* Faults of line 61: the role test dropped; the test dropped; the last
\* message tested in place of the first.
NeedsSystemPromptWhenEmpty(msgs) == msgs = <<>>
NeedsSystemPromptAlways(msgs) == TRUE
NeedsSystemPromptByLast(msgs) == msgs = <<>> \/ msgs[Len(msgs)].role # "system"

\* line 61: not messages or messages[0]["role"] != "system"
NeedsSystemPrompt(msgs) == msgs = <<>> \/ msgs[1].role # "system"

\* Fault of line 62: the instruction message overwrites the first message.
OverFirstMessage(prompt, msgs) ==
    <<Msg("system", prompt)>> \o (IF msgs = <<>> THEN <<>> ELSE Tail(msgs))

\* line 62: [{"role": "system", "content": SYSTEM_PROMPT}] + messages
WithSystemPrompt(prompt, msgs) == <<Msg("system", prompt)>> \o msgs

\* str.strip() of line 73
RECURSIVE LStrip(_)
LStrip(s) == IF s # <<>> /\ Head(s) \in Whitespace THEN LStrip(Tail(s)) ELSE s

RECURSIVE RStrip(_)
RStrip(s) ==
    IF s # <<>> /\ s[Len(s)] \in Whitespace THEN RStrip(SubSeq(s, 1, Len(s) - 1)) ELSE s

\* Fault of line 73: lstrip() for strip().
LStripOnly(s) == LStrip(s)

Strip(s) == RStrip(LStrip(s))

Ok(v) == [ok |-> TRUE, value |-> v, error |-> ""]
Err(e) == [ok |-> FALSE, value |-> <<>>, error |-> e]

\* Fault of lines 71-74: (content or "").strip(), a placeholder for a missing text.
ReplyContentOrEmpty(resp) ==
    IF "choices" \notin DOMAIN resp THEN Err("KeyError")
    ELSE IF resp.choices = <<>> THEN Err("IndexError")
    ELSE IF "message" \notin DOMAIN resp.choices[1] THEN Err("KeyError")
    ELSE IF "content" \notin DOMAIN resp.choices[1].message THEN Err("KeyError")
    ELSE IF resp.choices[1].message.content.type = "NoneType" THEN Ok(<<>>)
    ELSE IF resp.choices[1].message.content.type # "str" THEN Err("AttributeError")
    ELSE Ok(RStrip(LStrip(resp.choices[1].message.content.value)))

\* lines 71-74: completion["choices"][0]["message"]["content"].strip()
ReplyContent(resp) ==
    IF "choices" \notin DOMAIN resp THEN Err("KeyError")
    ELSE IF resp.choices = <<>> THEN Err("IndexError")
    ELSE IF "message" \notin DOMAIN resp.choices[1] THEN Err("KeyError")
    ELSE IF "content" \notin DOMAIN resp.choices[1].message THEN Err("KeyError")
    ELSE IF resp.choices[1].message.content.type # "str" THEN Err("AttributeError")
    ELSE Ok(Strip(resp.choices[1].message.content.value))

\* line 77: current_messages + [{"role": "assistant", "content": ...}]
WithReply(msgs, text) == msgs \o <<Msg("assistant", text)>>

\* A list expression (a + b, [..]) builds a new list object.  Its identity is
\* fresh; the model names it by the caller that built it and a serial number.
NoRef == <<0, 0>>
NewRef(h, p) == <<p, Cardinality({r \in DOMAIN h : r[1] = p})>>
NewList(h, ref, contents) == (ref :> contents) @@ h

----------------------------------------------------------------------------
(* Initial states: the module is imported and every caller has built its   *)
(* conversation and entered get_agent_response.                            *)

InitWith(callers, inputs, models) ==
    /\ SYSTEM_PROMPT = PromptText
    /\ MODEL_NAME \in models
    /\ input \in [callers -> inputs]
    /\ heap = [r \in {<<p, 0>> : p \in callers} |-> input[r[1]]]
    /\ messages = [p \in callers |-> <<p, 0>>]
    /\ pc = [p \in callers |-> "inject"]
    /\ current_messages = [p \in callers |-> NoRef]
    /\ completion = [p \in callers |-> Unbound]
    /\ assistant_reply_content = [p \in callers |-> <<>>]
    /\ updated_messages = [p \in callers |-> NoRef]
    /\ exception = [p \in callers |-> ""]
    /\ requests = [p \in callers |-> <<>>]
    /\ history = [p \in callers |-> <<>>]
    /\ interleaved = FALSE

Callers == DOMAIN pc

\* q has executed part of its call and has more of it to execute.
Busy(q) == pc[q] \in {"request", "extract", "append"}

\* Bookkeeping of a statement of caller p.
Ran(p) == interleaved' = (interleaved \/ \E q \in Callers \ {p} : Busy(q))

----------------------------------------------------------------------------
(* The statements of get_agent_response.                                   *)

\* lines 60-64
Inject(p) ==
    /\ pc[p] = "inject"
    /\ Ran(p)
    /\ IF NeedsSystemPrompt(heap[messages[p]])
       THEN /\ heap' = NewList(heap, NewRef(heap, p),
                                WithSystemPrompt(SYSTEM_PROMPT, heap[messages[p]]))
            /\ current_messages' = [current_messages EXCEPT ![p] = NewRef(heap, p)]
       ELSE /\ heap' = heap
            /\ current_messages' = [current_messages EXCEPT ![p] = messages[p]]
    /\ pc' = [pc EXCEPT ![p] = "request"]
    /\ UNCHANGED <<config, messages, completion, assistant_reply_content,
                   updated_messages, exception, requests, input, history>>

Request(p, outcome) ==
    [model |-> MODEL_NAME, messages |-> heap[current_messages[p]], outcome |-> outcome]

\* Fault of lines 66-69: `completion` kept in a module-level variable that all
\* callers share.
CompletionReturnsShared(p, resp) ==
    /\ pc[p] = "request"
    /\ Ran(p)
    /\ requests' = [requests EXCEPT ![p] = Append(@, Request(p, [raised |-> FALSE, response |-> resp, error |-> ""]))]
    /\ completion' = [q \in Callers |-> resp]
    /\ pc' = [pc EXCEPT ![p] = "extract"]
    /\ UNCHANGED <<config, heap, messages, current_messages, assistant_reply_content,
                   updated_messages, exception, input, history>>

\* lines 66-69, the remote call returns a response
CompletionReturns(p, resp) ==
    /\ pc[p] = "request"
    /\ Ran(p)
    /\ requests' = [requests EXCEPT ![p] = Append(@, Request(p, [raised |-> FALSE, response |-> resp, error |-> ""]))]
    /\ completion' = [completion EXCEPT ![p] = resp]
    /\ pc' = [pc EXCEPT ![p] = "extract"]
    /\ UNCHANGED <<config, heap, messages, current_messages, assistant_reply_content,
                   updated_messages, exception, input, history>>

\* Fault of lines 66-69: the failure is caught and an empty reply stands in.
CompletionRaisesCaught(p, err) ==
    /\ pc[p] = "request"
    /\ Ran(p)
    /\ requests' = [requests EXCEPT ![p] = Append(@, Request(p, [raised |-> TRUE, response |-> Unbound, error |-> err]))]
    /\ completion' = [completion EXCEPT ![p] = [choices |-> <<Choice(Str(<<>>))>>]]
    /\ pc' = [pc EXCEPT ![p] = "extract"]
    /\ UNCHANGED <<config, heap, messages, current_messages, assistant_reply_content,
                   updated_messages, exception, input, history>>

\* Fault of lines 66-69: the call is made a second time before the failure is let through.
CompletionRaisesAfterRetry(p, err) ==
    /\ pc[p] = "request"
    /\ Ran(p)
    /\ requests' = [requests EXCEPT ![p] =
                       @ \o <<Request(p, [raised |-> TRUE, response |-> Unbound, error |-> err]),
                              Request(p, [raised |-> TRUE, response |-> Unbound, error |-> err])>>]
    /\ exception' = [exception EXCEPT ![p] = err]
    /\ pc' = [pc EXCEPT ![p] = "raised"]
    /\ UNCHANGED <<config, heap, messages, current_messages, completion,
                   assistant_reply_content, updated_messages, input, history>>

\* lines 66-69, the remote call raises: nothing catches it
CompletionRaises(p, err) ==
    /\ pc[p] = "request"
    /\ Ran(p)
    /\ requests' = [requests EXCEPT ![p] = Append(@, Request(p, [raised |-> TRUE, response |-> Unbound, error |-> err]))]
    /\ exception' = [exception EXCEPT ![p] = err]
    /\ pc' = [pc EXCEPT ![p] = "raised"]
    /\ UNCHANGED <<config, heap, messages, current_messages, completion,
                   assistant_reply_content, updated_messages, input, history>>

\* lines 71-74
Extract(p) ==
    /\ pc[p] = "extract"
    /\ Ran(p)
    /\ IF ReplyContent(completion[p]).ok
       THEN /\ assistant_reply_content' =
                   [assistant_reply_content EXCEPT ![p] = ReplyContent(completion[p]).value]
            /\ pc' = [pc EXCEPT ![p] = "append"]
            /\ UNCHANGED exception
       ELSE /\ exception' = [exception EXCEPT ![p] = ReplyContent(completion[p]).error]
            /\ pc' = [pc EXCEPT ![p] = "raised"]
            /\ UNCHANGED assistant_reply_content
    /\ UNCHANGED <<config, heap, messages, current_messages, completion,
                   updated_messages, requests, input, history>>

\* Fault of lines 76-78: current_messages.append(...) for current_messages + [...].
AppendInPlaceAndReturn(p) ==
    /\ pc[p] = "append"
    /\ Ran(p)
    /\ heap' = [heap EXCEPT ![current_messages[p]] = WithReply(@, assistant_reply_content[p])]
    /\ updated_messages' = [updated_messages EXCEPT ![p] = current_messages[p]]
    /\ history' = [history EXCEPT ![p] =
                      Append(@, [input |-> input[p],
                                 sent |-> heap[current_messages[p]],
                                 output |-> heap'[current_messages[p]]])]
    /\ pc' = [pc EXCEPT ![p] = "returned"]
    /\ UNCHANGED <<config, messages, current_messages, completion,
                   assistant_reply_content, exception, requests, input>>

\* lines 76-78
AppendAndReturn(p) ==
    /\ pc[p] = "append"
    /\ Ran(p)
    /\ heap' = NewList(heap, NewRef(heap, p),
                        WithReply(heap[current_messages[p]], assistant_reply_content[p]))
    /\ updated_messages' = [updated_messages EXCEPT ![p] = NewRef(heap, p)]
    /\ history' = [history EXCEPT ![p] =
                      Append(@, [input |-> input[p],
                                 sent |-> heap[current_messages[p]],
                                 output |-> heap'[NewRef(heap, p)]])]
    /\ pc' = [pc EXCEPT ![p] = "returned"]
    /\ UNCHANGED <<config, messages, current_messages, completion,
                   assistant_reply_content, exception, requests, input>>

\* lines 43-78 as one function of the input, the configuration and the outcome
\* of the remote call: what a call returns, or raises, when it runs undisturbed.
RunAlone(prompt, msgs, outcome) ==
    LET cur == IF NeedsSystemPrompt(msgs) THEN WithSystemPrompt(prompt, msgs) ELSE msgs
        rc == ReplyContent(outcome.response)
    IN  IF outcome.raised THEN [returned |-> FALSE, value |-> <<>>, error |-> outcome.error]
        ELSE IF rc.ok THEN [returned |-> TRUE, value |-> WithReply(cur, rc.value), error |-> ""]
        ELSE [returned |-> FALSE, value |-> <<>>, error |-> rc.error]

----------------------------------------------------------------------------
(* One call of one caller, every input and every remote outcome.           *)

Init == InitWith({1}, Inputs, ModelNames)

Next ==
    \/ \E p \in Callers : Inject(p)
    \/ \E p \in Callers, r \in Responses : CompletionReturns(p, r)
    \/ \E p \in Callers, e \in RemoteErrors : CompletionRaises(p, e)
    \/ \E p \in Callers : Extract(p)
    \/ \E p \in Callers : AppendAndReturn(p)

Spec == Init /\ [][Next]_vars

----------------------------------------------------------------------------
(* A conversation carried over several calls: the caller takes the list a  *)
(* call returned, appends its next user messages to it (or nothing) and    *)
(* passes it to the next call.                                             *)

ChainResponses ==
    {[choices |-> <<Choice(Str(<<" ", "a">>))>>], [choices |-> <<Choice(Str(<<>>))>>]}
ChainErrors == {"RateLimitError"}
UserTurns == SeqsUpTo({Msg("user", UserText)}, MaxAppend)

NextTurn(p, extra) ==
    /\ pc[p] = "returned"
    /\ Len(history[p]) < MaxTurns
    /\ Ran(p)
    /\ heap' = [heap EXCEPT ![updated_messages[p]] = @ \o extra]
    /\ messages' = [messages EXCEPT ![p] = updated_messages[p]]
    /\ input' = [input EXCEPT ![p] = heap[updated_messages[p]] \o extra]
    /\ pc' = [pc EXCEPT ![p] = "inject"]
    /\ current_messages' = [current_messages EXCEPT ![p] = NoRef]
    /\ completion' = [completion EXCEPT ![p] = Unbound]
    /\ assistant_reply_content' = [assistant_reply_content EXCEPT ![p] = <<>>]
    /\ updated_messages' = [updated_messages EXCEPT ![p] = NoRef]
    /\ requests' = [requests EXCEPT ![p] = <<>>]
    /\ UNCHANGED <<config, exception, history>>

InitChain == InitWith({1}, Inputs, {DefaultModel})

NextChain ==
    \/ \E p \in Callers : Inject(p)
    \/ \E p \in Callers, r \in ChainResponses : CompletionReturns(p, r)
    \/ \E p \in Callers, e \in ChainErrors : CompletionRaises(p, e)
    \/ \E p \in Callers : Extract(p)
    \/ \E p \in Callers : AppendAndReturn(p)
    \/ \E p \in Callers, extra \in UserTurns : NextTurn(p, extra)

SpecChain == InitChain /\ [][NextChain]_vars

----------------------------------------------------------------------------
(* Several callers, each with its own conversation, whose calls interleave *)
(* statement by statement.                                                 *)

ConcInputs ==
    {<<>>,
     <<Msg("user", UserText)>>,
     <<Msg("system", CustomText), Msg("user", UserText)>>,
     <<Msg("assistant", UserText), Msg("system", PromptText)>>}
ConcResponses ==
    {[choices |-> <<Choice(Str(<<" ", "a">>))>>],
     [choices |-> <<Choice(Str(<<"a", "\n">>)), Choice(Str(<<"b">>))>>],
     [choices |-> <<>>]}
ConcErrors == {"APIConnectionError"}

InitConc == InitWith(1..NumCallers, ConcInputs, ModelNames)

NextConc ==
    \/ \E p \in Callers : Inject(p)
    \/ \E p \in Callers, r \in ConcResponses : CompletionReturns(p, r)
    \/ \E p \in Callers, e \in ConcErrors : CompletionRaises(p, e)
    \/ \E p \in Callers : Extract(p)
    \/ \E p \in Callers : AppendAndReturn(p)

SpecConc == InitConc /\ [][NextConc]_vars

----------------------------------------------------------------------------
(* The claims.                                                             *)

Result(p) == heap[updated_messages[p]]
Sent(p) == heap[current_messages[p]]
SystemMessage == [role |-> "system", content |-> SYSTEM_PROMPT]
LacksLeadingSystem(msgs) == msgs = <<>> \/ msgs[1].role # "system"
AllButLast(s) == SubSeq(s, 1, Len(s) - 1)
ExtractionErrors == {"IndexError", "KeyError", "AttributeError"}

\* C1: the instruction message is prepended if and only if the input is empty
\* or its first role is not "system"; in both cases the input messages follow
\* unchanged and in order, in the conversation sent and in the one returned.
C1_InjectionIff ==
    \A p \in Callers :
        pc[p] # "inject" =>
            /\ LacksLeadingSystem(input[p]) => Sent(p) = <<SystemMessage>> \o input[p]
            /\ ~LacksLeadingSystem(input[p]) => Sent(p) = input[p]
            /\ pc[p] = "returned" => AllButLast(Result(p)) = Sent(p)

C1_Witness ==
    \E p \in Callers :
        /\ pc[p] = "returned"
        /\ Len(input[p]) = 2
        /\ input[p][1].role = "user"
        /\ input[p][2].role = "system"
        /\ Result(p)[1] = SystemMessage
        /\ Len(Result(p)) = 4

\* C2: the returned conversation is as long as the input, plus 1 if an
\* instruction message was injected, plus 1 for the reply.
C2_OutputLength ==
    \A p \in Callers :
        pc[p] = "returned" =>
            /\ Len(Result(p)) =
                  Len(input[p]) + (IF current_messages[p] # messages[p] THEN 1 ELSE 0) + 1
            /\ Len(Result(p)) \in {Len(input[p]) + 1, Len(input[p]) + 2}

C2_Witness ==
    \E p \in Callers :
        /\ pc[p] = "returned"
        /\ current_messages[p] = messages[p]
        /\ Len(input[p]) = 2
        /\ Len(Result(p)) = 3

\* t is raw without its leading and trailing whitespace.
IsTrimOf(t, raw) ==
    \E i, j \in 0..Len(raw) :
        /\ i + j <= Len(raw)
        /\ t = SubSeq(raw, i + 1, Len(raw) - j)
        /\ \A k \in 1..i : raw[k] \in Whitespace
        /\ \A k \in (Len(raw) - j + 1)..Len(raw) : raw[k] \in Whitespace
        /\ t # <<>> => (t[1] \notin Whitespace /\ t[Len(t)] \notin Whitespace)

\* C3: on success exactly one message is appended, as the last element; its
\* role is "assistant" and its content is the first choice's text without
\* leading and trailing whitespace.
C3_ReplyIsTrimmedFirstChoice ==
    \A p \in Callers :
        pc[p] = "returned" =>
            LET out == Result(p)
                raw == completion[p].choices[1].message.content.value
            IN  /\ Len(out) = Len(Sent(p)) + 1
                /\ AllButLast(out) = Sent(p)
                /\ out[Len(out)].role = "assistant"
                /\ IsTrimOf(out[Len(out)].content, raw)

C3_Witness ==
    \E p \in Callers :
        /\ pc[p] = "returned"
        /\ Len(completion[p].choices) = 2
        /\ completion[p].choices[1].message.content.value = <<" ", "a", "\n">>
        /\ Result(p)[Len(Result(p))] = [role |-> "assistant", content |-> <<"a">>]

RemoteRaised(p) == requests[p] # <<>> /\ requests[p][1].outcome.raised

\* C4: when the remote call raises, the call ends with that same failure:
\* nothing is returned and no list with a reply is built.
C4_RemoteFailurePropagates ==
    \A p \in Callers :
        RemoteRaised(p) =>
            /\ pc[p] = "raised"
            /\ exception[p] = requests[p][1].outcome.error
            /\ updated_messages[p] = NoRef
            /\ history[p] = <<>>
            /\ \A r \in DOMAIN heap : r[1] = p => r \in {messages[p], current_messages[p]}
            /\ Sent(p) = requests[p][1].messages

C4_Witness ==
    \E p \in Callers :
        /\ RemoteRaised(p)
        /\ exception[p] = "RateLimitError"
        /\ input[p] # <<>>

\* C5: the caller's list holds after the call what it held before it, on
\* success and on failure, injected or not; the returned list is another list.
C5_InputNotMutated ==
    \A p \in Callers :
        /\ heap[messages[p]] = input[p]
        /\ pc[p] = "returned" =>
              /\ updated_messages[p] \in DOMAIN heap
              /\ updated_messages[p] # messages[p]

C5_Witness ==
    \E p \in Callers :
        /\ pc[p] = "returned"
        /\ current_messages[p] = messages[p]
        /\ input[p] # <<>>
        /\ Result(p) # input[p]

\* C6: each call makes exactly one request, also when it fails; the request
\* follows the injection decision and precedes the appending, names
\* MODEL_NAME and carries the post-injection conversation, led by a system
\* message.
C6_OneRequest ==
    \A p \in Callers :
        /\ Len(requests[p]) = (IF pc[p] \in {"inject", "request"} THEN 0 ELSE 1)
        /\ \A k \in 1..Len(requests[p]) :
              /\ requests[p][k].model = MODEL_NAME
              /\ current_messages[p] # NoRef
              /\ requests[p][k].messages =
                    (IF LacksLeadingSystem(input[p])
                        THEN <<SystemMessage>> \o input[p] ELSE input[p])
              /\ requests[p][k].messages[1].role = "system"
        /\ updated_messages[p] # NoRef => Len(requests[p]) = 1

C6_Witness ==
    \E p \in Callers :
        /\ pc[p] = "raised"
        /\ RemoteRaised(p)
        /\ Len(requests[p]) = 1
        /\ requests[p][1].model = "env-model"
        /\ input[p] = <<>>

\* C7: a returned conversation is non-empty and led by a system message; the
\* gateway adds at most one instruction message, and when it adds one the
\* next element is not a system message.
C7_ReturnedConversationInvariant ==
    \A p \in Callers :
        pc[p] = "returned" =>
            LET out == Result(p)
                added == Len(out) - Len(input[p]) - 1
            IN  /\ out # <<>>
                /\ out[1].role = "system"
                /\ added \in {0, 1}
                /\ added = 1 => (out[1] = SystemMessage /\ out[2].role # "system")
                /\ added = 0 => out[1] = input[p][1]

C7_Witness ==
    \E p \in Callers :
        /\ pc[p] = "returned"
        /\ input[p] # <<>>
        /\ input[p][1] = SystemMessage
        /\ Len(Result(p)) = Len(input[p]) + 1

Bound(c) == "unbound" \notin DOMAIN c

Malformed(c) ==
    \/ "choices" \notin DOMAIN c
    \/ c.choices = <<>>
    \/ "message" \notin DOMAIN c.choices[1]
    \/ "content" \notin DOMAIN c.choices[1].message
    \/ c.choices[1].message.content.type # "str"

\* C8: when the response has no choices, no message, or a content that is
\* not text, the call fails at the extraction: nothing is returned and no
\* reply is appended.
C8_MalformedResponseFails ==
    \A p \in Callers :
        (Bound(completion[p]) /\ Malformed(completion[p]) /\ pc[p] # "extract") =>
            /\ pc[p] = "raised"
            /\ exception[p] \in ExtractionErrors
            /\ updated_messages[p] = NoRef
            /\ history[p] = <<>>
            /\ \A r \in DOMAIN heap : r[1] = p => r \in {messages[p], current_messages[p]}

C8_Witness ==
    \E p \in Callers :
        /\ pc[p] = "raised"
        /\ Bound(completion[p])
        /\ "choices" \in DOMAIN completion[p]
        /\ completion[p].choices # <<>>
        /\ "message" \in DOMAIN completion[p].choices[1]
        /\ "content" \in DOMAIN completion[p].choices[1].message
        /\ completion[p].choices[1].message.content.type = "NoneType"
        /\ exception[p] = "AttributeError"

AsAlone(p) ==
    LET alone == RunAlone(SYSTEM_PROMPT, input[p], requests[p][1].outcome)
    IN  /\ pc[p] = "returned" => (alone.returned /\ Result(p) = alone.value)
        /\ pc[p] = "raised" => (~alone.returned /\ exception[p] = alone.error)

\* C9: under any interleaving of the statements of concurrent calls on
\* separate conversations, each call returns (or raises) what it would when
\* run alone with the same input and the same remote outcome, and
\* SYSTEM_PROMPT and MODEL_NAME keep their start-up values.
C9_ConcurrentCallsIndependent ==
    /\ [](\A p \in Callers : pc[p] \in {"returned", "raised"} => AsAlone(p))
    /\ [][config' = config]_vars

C9_Witness ==
    /\ interleaved
    /\ pc[1] = "returned"
    /\ pc[2] = "returned"
    /\ input[1] # input[2]
    /\ completion[1] # completion[2]
    /\ Result(1) # Result(2)

SystemCount(msgs) == Cardinality({k \in 1..Len(msgs) : msgs[k].role = "system"})

\* C10: over a chained conversation the later calls inject nothing: the
\* number of system messages is that of the original input plus at most one,
\* and the message at index 0 is the same after every call.
C10_InjectAtMostOnce ==
    \A p \in Callers :
        LET h == history[p]
        IN  /\ \A k \in 1..Len(h) :
                  /\ SystemCount(h[k].output) <= SystemCount(h[1].input) + 1
                  /\ h[k].output[1] = h[1].output[1]
                  /\ k > 1 => h[k].sent = h[k].input
            /\ (h # <<>> /\ pc[p] \notin {"inject", "returned"}) => Sent(p) = input[p]

C10_Witness ==
    \E p \in Callers :
        /\ Len(history[p]) = 3
        /\ history[p][1].input # <<>>
        /\ history[p][1].input[1].role = "user"
        /\ Len(history[p][1].sent) = Len(history[p][1].input) + 1
        /\ Len(history[p][3].input) = Len(history[p][2].output) + 1
        /\ SystemCount(history[p][3].output) = SystemCount(history[p][1].input) + 1

====
